---- MODULE Spec2Model ----
(***************************************************************************)
(* Model of the blueprint tree view of src/src/extension.ts: the objects   *)
(* of class BlueprintNode live in a heap (a sequence of records, a         *)
(* reference is an index), BlueprintTreeDataProvider is the variables      *)
(* rootNodes, statusFilter, showOnlyUnformalized and searchText, and the   *)
(* display layer is the set of node references it was handed by            *)
(* getChildren.                                                            *)
(***************************************************************************)
EXTENDS Integers, Sequences, FiniteSets, TLC

VARIABLES
    file,                  \* blueprint_to_lean.jsonl: None, or Some of its lines
    heap,                  \* every live BlueprintNode object; a reference is an index
    rootNodes,             \* BlueprintTreeDataProvider.rootNodes: references
    statusFilter,          \* BlueprintTreeDataProvider.statusFilter
    showOnlyUnformalized,  \* BlueprintTreeDataProvider.showOnlyUnformalized
    searchText,            \* BlueprintTreeDataProvider._searchText
    shown,                 \* references the display layer holds (results of getChildren)
    expands,               \* getChildren(element) calls since the roots were requested
    lastCall,              \* the last call of the display layer and what it returned
    notified,              \* what a listener of onDidChangeTreeData read of the provider
                           \* on each event of the last call that fired any
    runs                   \* the invocations of the parse command: where each is, and
                           \* what it met on its way

vars == <<file, heap, rootNodes, statusFilter, showOnlyUnformalized, searchText,
          shown, expands, lastCall, notified, runs>>

-----------------------------------------------------------------------------
(* Bounds *)

\* Blueprint items (nested ones included) in one data file.
MaxNodes == 3
\* Statements of the longest chain of the data files of Spec.
MaxDepth == 2
\* Statements of the longest chain of the data files of WalkSpec.
MaxChain == 3
\* getChildren(element) calls the display layer makes between two requests of the roots.
MaxExpand == 1
\* Non-blank lines of the data files of LoadSpec.
MaxLines == 2
\* Statements of the longest chain of the data files of ClassSpec.
MaxNest == 2
\* The longest chain of the data files of TextSpec.
MaxText == 1
\* Invocations of the parse command.
MaxRuns == 2

-----------------------------------------------------------------------------
(* JavaScript values *)

\* A property that is absent reads as undefined; JSON null is a different value.
Undefined == "<undefined>"
Null == "<null>"

\* Truthiness of a string-valued property: undefined, null and "" are falsy.
Truthy(s) == s \notin {Undefined, Null, ""}

\* a ?? b: only undefined and null give way to b.
OrElseNullish(a, b) == IF a \in {Undefined, Null} THEN b ELSE a

\* a || b on string-valued properties.
OrElse(a, b) == IF Truthy(a) THEN a ELSE b

\* An optional value is a sequence of length 0 (undefined) or 1.
None == <<>>
Some(v) == <<v>>

RECURSIVE JoinComma(_)
\* Array.prototype.join(', ')
JoinComma(names) ==
    IF names = <<>> THEN ""
    ELSE IF Len(names) = 1 THEN names[1]
    ELSE names[1] \o ", " \o JoinComma(Tail(names))

Range(s) == {s[i] : i \in DOMAIN s}

-----------------------------------------------------------------------------
(* Blueprint items: the objects JSON.parse yields for the lines of the     *)
(* data file.  String-valued properties hold Undefined when absent and     *)
(* Null when null; leanok and fully_proved are booleans (absent = FALSE);  *)
(* children, lean_declarations and lean_names are sequences (absent = the  *)
(* empty sequence); proof is optional.                                     *)

\* A declaration reference: range holds the start line, or nothing when
\* range, range.start or a numeric range.start.line is missing.
Decl(full_name, real_file, range) ==
    [full_name |-> full_name, real_file |-> real_file, range |-> range]

\* The properties of an item but children and proof.
Attr(label, title, stmt_type, processed_text, leanok, fully_proved, decls, names) ==
    [label |-> label, title |-> title, stmt_type |-> stmt_type,
     processed_text |-> processed_text, leanok |-> leanok,
     fully_proved |-> fully_proved, lean_declarations |-> decls,
     lean_names |-> names]

MkItem(a, children, proof) ==
    [label |-> a.label, title |-> a.title, stmt_type |-> a.stmt_type,
     processed_text |-> a.processed_text, leanok |-> a.leanok,
     fully_proved |-> a.fully_proved, lean_declarations |-> a.lean_declarations,
     lean_names |-> a.lean_names, children |-> children, proof |-> proof]

-----------------------------------------------------------------------------
(* class BlueprintNode *)

\* new vscode.ThemeIcon(id), the colour dropped.
ThemeIconUncoloured(id, color) == [id |-> id, color |-> Undefined]

\* new vscode.ThemeIcon(id, color)
ThemeIcon(id, color) == [id |-> id, color |-> color]

\* calculateFormalizationStatus looking at the two flags only.
CalculateFormalizationStatusByFlags(data) == data.leanok \/ data.fully_proved

\* BlueprintNode.calculateFormalizationStatus
CalculateFormalizationStatus(data) ==
    data.leanok \/ data.fully_proved \/ Len(data.lean_declarations) > 0

\* The constructor handing the default state, Collapsed, to super() whatever
\* the children and the state asked for.
NewBlueprintNodeCollapsed(label, children, collapsibleState, blueprintData) ==
    LET isFormalized ==
            IF blueprintData # None
            THEN CalculateFormalizationStatus(blueprintData[1])
            ELSE FALSE
    IN  [label |-> label,
         collapsibleState |-> "Collapsed",
         children |-> children,
         blueprintData |-> blueprintData,
         isFormalized |-> isFormalized,
         contextValue |-> IF isFormalized THEN "formalizedNode" ELSE "unformalizedNode",
         iconPath |-> IF blueprintData # None /\ Truthy(blueprintData[1].stmt_type)
                      THEN Some(ThemeIcon(
                               IF isFormalized THEN "check" ELSE "circle-outline",
                               IF isFormalized THEN Undefined
                               ELSE "problemsWarningIcon.foreground"))
                      ELSE None,
         command |-> None,
         description |-> Undefined,
         tooltip |-> None,
         origin |-> 0,
         under |-> {"formalized", "non-formalized"}]

\* The BlueprintNode constructor.  blueprintData is None for null.  origin and
\* under are history, not fields of the class, and are set by the callers:
\* origin is the reference of the node built by buildTree that this object is,
\* or is a copy of; under is the status filter a copy was made under, and
\* Statuses for a node built by buildTree.
NewBlueprintNode(label, children, collapsibleState, blueprintData) ==
    LET isFormalized ==
            IF blueprintData # None
            THEN CalculateFormalizationStatus(blueprintData[1])
            ELSE FALSE
    IN  [label |-> label,
         collapsibleState |-> IF Len(children) > 0 THEN collapsibleState ELSE "None",
         children |-> children,
         blueprintData |-> blueprintData,
         isFormalized |-> isFormalized,
         contextValue |-> IF isFormalized THEN "formalizedNode" ELSE "unformalizedNode",
         iconPath |-> IF blueprintData # None /\ Truthy(blueprintData[1].stmt_type)
                      THEN Some(ThemeIcon(
                               IF isFormalized THEN "check" ELSE "circle-outline",
                               IF isFormalized THEN Undefined
                               ELSE "problemsWarningIcon.foreground"))
                      ELSE None,
         command |-> None,
         description |-> Undefined,
         tooltip |-> None,
         origin |-> 0,
         under |-> {"formalized", "non-formalized"}]

\* What a call that allocates returns: the heap after it and the references.
Out(h, result) == [heap |-> h, result |-> result]

-----------------------------------------------------------------------------
(* buildTree and loadBlueprintTreeFromJsonl *)

\* const info = { ...n }; delete info.children; delete info.proof
Info(n) == [f \in (DOMAIN n) \ {"children", "proof"} |-> n[f]]

\* The leaf opening the file at range.start.line as it is, zero-based.
LeanNodeAtStartLine(decl) ==
    LET line == decl.range[1]
        leanNode == NewBlueprintNode("Lean: " \o decl.full_name, <<>>, "None", None)
    IN  [leanNode EXCEPT
            !.command = Some([title |-> "Go to Lean: " \o decl.full_name,
                              command |-> "vscode.open",
                              arguments |-> <<[path |-> decl.real_file,
                                               fragment |-> "L" \o ToString(line)]>>]),
            !.tooltip = Some([text |-> decl.real_file \o ":L" \o ToString(line)])]

\* The leaf of one declaration reference, when it is well formed.
LeanNode(decl) ==
    LET line == decl.range[1] + 1
        leanNode == NewBlueprintNode("Lean: " \o decl.full_name, <<>>, "None", None)
    IN  [leanNode EXCEPT
            !.command = Some([title |-> "Go to Lean: " \o decl.full_name,
                              command |-> "vscode.open",
                              arguments |-> <<[path |-> decl.real_file,
                                               fragment |-> "L" \o ToString(line)]>>]),
            !.tooltip = Some([text |-> decl.real_file \o ":L" \o ToString(line)])]

RECURSIVE BuildLeaves(_, _)

\* forEach given up at the first entry without file or start line.
BuildLeavesUntilMalformed(h, decls) ==
    IF decls = <<>> THEN Out(h, <<>>)
    ELSE LET decl == Head(decls) IN
         IF Truthy(decl.real_file) /\ decl.range # None
         THEN LET ref == Len(h) + 1
                  rest == BuildLeaves(Append(h, [LeanNode(decl) EXCEPT !.origin = ref]),
                                      Tail(decls))
              IN  Out(rest.heap, <<ref>> \o rest.result)
         ELSE Out(h, <<>>)

\* n.lean_declarations.forEach(...)
BuildLeaves(h, decls) ==
    IF decls = <<>> THEN Out(h, <<>>)
    ELSE LET decl == Head(decls) IN
         IF Truthy(decl.real_file) /\ decl.range # None
         THEN LET ref == Len(h) + 1
                  rest == BuildLeaves(Append(h, [LeanNode(decl) EXCEPT !.origin = ref]),
                                      Tail(decls))
              IN  Out(rest.heap, <<ref>> \o rest.result)
         ELSE BuildLeaves(h, Tail(decls))

RECURSIVE BuildTree(_, _)
RECURSIVE BuildNode(_, _)

\* buildTree(nodes): nodes.filter((n) => n.label !== null).map(...)
BuildTree(h, nodes) ==
    IF nodes = <<>> THEN Out(h, <<>>)
    ELSE IF Head(nodes).label = Null THEN BuildTree(h, Tail(nodes))
    ELSE LET first == BuildNode(h, Head(nodes))
             rest == BuildTree(first.heap, Tail(nodes))
         IN  Out(rest.heap, first.result \o rest.result)

\* BuildNode pushing the declaration leaves before the proof and the children.
BuildNodeLeavesFirst(h, n) ==
    LET label == OrElse(n.title, OrElse(n.label,
                     OrElse(n.stmt_type, OrElse(n.processed_text, "Item"))))
        leaves == BuildLeaves(h, n.lean_declarations)
        proof == IF n.proof # None THEN BuildTree(leaves.heap, n.proof)
                 ELSE Out(leaves.heap, <<>>)
        structural == BuildTree(proof.heap, n.children)
        children == leaves.result \o proof.result \o structural.result
        collapsibleState == IF Len(children) > 0 THEN "Collapsed" ELSE "None"
        ref == Len(structural.heap) + 1
        node == NewBlueprintNode(label, children, collapsibleState, Some(n))
        built == [node EXCEPT
                     !.description =
                         IF Len(n.lean_names) > 0
                         THEN "Lean: " \o JoinComma(n.lean_names)
                         ELSE Undefined,
                     !.command =
                         IF Truthy(n.label)
                         THEN Some([title |-> "Go to Blueprint Declaration",
                                    command |-> "workbench.action.findInFiles",
                                    arguments |-> <<[query |-> n.label]>>])
                         ELSE None,
                     !.tooltip = Some([json |-> Info(n)]),
                     !.origin = ref]
    IN  Out(Append(structural.heap, built), <<ref>>)

\* The map callback giving every node the search command, for its display
\* text.
BuildNodeSearchesText(h, n) ==
    LET label == OrElse(n.title, OrElse(n.label,
                     OrElse(n.stmt_type, OrElse(n.processed_text, "Item"))))
        proof == IF n.proof # None THEN BuildTree(h, n.proof) ELSE Out(h, <<>>)
        structural == BuildTree(proof.heap, n.children)
        leaves == BuildLeaves(structural.heap, n.lean_declarations)
        children == proof.result \o structural.result \o leaves.result
        collapsibleState == IF Len(children) > 0 THEN "Collapsed" ELSE "None"
        ref == Len(leaves.heap) + 1
        node == NewBlueprintNode(label, children, collapsibleState, Some(n))
        built == [node EXCEPT
                     !.description =
                         IF Len(n.lean_names) > 0
                         THEN "Lean: " \o JoinComma(n.lean_names)
                         ELSE Undefined,
                     !.command =
                         Some([title |-> "Go to Blueprint Declaration",
                               command |-> "workbench.action.findInFiles",
                               arguments |-> <<[query |-> label]>>]),
                     !.tooltip = Some([json |-> Info(n)]),
                     !.origin = ref]
    IN  Out(Append(leaves.heap, built), <<ref>>)

\* The body of the map callback of buildTree: the node of one item.
BuildNode(h, n) ==
    LET label == OrElse(n.title, OrElse(n.label,
                     OrElse(n.stmt_type, OrElse(n.processed_text, "Item"))))
        proof == IF n.proof # None THEN BuildTree(h, n.proof) ELSE Out(h, <<>>)
        structural == BuildTree(proof.heap, n.children)
        leaves == BuildLeaves(structural.heap, n.lean_declarations)
        children == proof.result \o structural.result \o leaves.result
        collapsibleState == IF Len(children) > 0 THEN "Collapsed" ELSE "None"
        ref == Len(leaves.heap) + 1
        node == NewBlueprintNode(label, children, collapsibleState, Some(n))
        built == [node EXCEPT
                     !.description =
                         IF Len(n.lean_names) > 0
                         THEN "Lean: " \o JoinComma(n.lean_names)
                         ELSE Undefined,
                     !.command =
                         IF Truthy(n.label)
                         THEN Some([title |-> "Go to Blueprint Declaration",
                                    command |-> "workbench.action.findInFiles",
                                    arguments |-> <<[query |-> n.label]>>])
                         ELSE None,
                     !.tooltip = Some([json |-> Info(n)]),
                     !.origin = ref]
    IN  Out(Append(leaves.heap, built), <<ref>>)

\* A data file that exists and whose reading or building throws (a file that
\* may not be read, or a line whose children are no array): the catch of
\* loadBlueprintTreeFromJsonl shows the error message and returns undefined.
Throwing == <<"EACCES", "Failed to parse blueprint_to_lean.jsonl">>

\* loadBlueprintTreeFromJsonl stopping at the first line that is no JSON.
LoadAbortsOnBadLine(f) ==
    IF Len(f) # 1 THEN None
    ELSE IF \E k \in DOMAIN f[1] : f[1][k] = None THEN None
    ELSE LET data == [i \in 1..Len(f[1]) |-> f[1][i][1]]
         IN  Some(BuildTree(<<>>, data))

\* The data file is None when it does not exist, else Some of its non-blank
\* lines; a line is Some(object) when JSON.parse succeeds on it and None when
\* it throws.
LoadBlueprintTreeFromJsonl(f) ==
    IF Len(f) # 1 THEN None
    ELSE LET parsed == SelectSeq(f[1], LAMBDA line : line # None)
             data == [i \in 1..Len(parsed) |-> parsed[i][1]]
         IN  Some(BuildTree(<<>>, data))

-----------------------------------------------------------------------------
(* BlueprintTreeDataProvider.filterNodesByStatus *)

Statuses == {"formalized", "non-formalized"}

RECURSIVE FilterNodesByStatus(_, _, _)

\* IncludeNode forgetting filteredNode.command = node.command.
IncludeNodeWithoutCommand(h, ref, sf) ==
    LET node == h[ref]
        filtered == FilterNodesByStatus(h, node.children, sf)
        filteredNode ==
            NewBlueprintNode(node.label, filtered.result,
                             IF Len(filtered.result) > 0 THEN "Expanded" ELSE "None",
                             node.blueprintData)
    IN  Out(Append(filtered.heap,
                   [filteredNode EXCEPT !.description = node.description,
                                        !.iconPath = node.iconPath,
                                        !.tooltip = node.tooltip,
                                        !.origin = node.origin,
                                        !.under = sf]),
            <<Len(filtered.heap) + 1>>)

\* IncludeNode copying the node over its original children.
IncludeNodeWholeSubtree(h, ref, sf) ==
    LET node == h[ref]
        filteredNode ==
            NewBlueprintNode(node.label, node.children, "Expanded", node.blueprintData)
    IN  Out(Append(h, [filteredNode EXCEPT !.description = node.description,
                                           !.iconPath = node.iconPath,
                                           !.command = node.command,
                                           !.tooltip = node.tooltip,
                                           !.origin = node.origin,
                                           !.under = sf]),
            <<Len(h) + 1>>)

\* IncludeNode pushing the node itself, as filterUnformalizedNodes does
\* (result.push(node)), when all its children are shown.
IncludeNodeShared(h, ref, sf) ==
    LET node == h[ref]
        filtered == FilterNodesByStatus(h, node.children, sf)
        filteredNode ==
            NewBlueprintNode(node.label, filtered.result,
                             IF Len(filtered.result) > 0 THEN "Expanded" ELSE "None",
                             node.blueprintData)
    IN  IF Len(filtered.result) = Len(node.children)
        THEN Out(h, <<ref>>)
        ELSE Out(Append(filtered.heap,
                        [filteredNode EXCEPT !.description = node.description,
                                             !.iconPath = node.iconPath,
                                             !.command = node.command,
                                             !.tooltip = node.tooltip,
                                             !.origin = node.origin,
                                             !.under = sf]),
                 <<Len(filtered.heap) + 1>>)

\* Lines 132-143 and 163-174: the status of the node at ref is shown; a copy
\* of it over the filtered children.
IncludeNode(h, ref, sf) ==
    LET node == h[ref]
        filtered == FilterNodesByStatus(h, node.children, sf)
        filteredNode ==
            NewBlueprintNode(node.label, filtered.result,
                             IF Len(filtered.result) > 0 THEN "Expanded" ELSE "None",
                             node.blueprintData)
    IN  Out(Append(filtered.heap,
                   [filteredNode EXCEPT !.description = node.description,
                                        !.iconPath = node.iconPath,
                                        !.command = node.command,
                                        !.tooltip = node.tooltip,
                                        !.origin = node.origin,
                                        !.under = sf]),
            <<Len(filtered.heap) + 1>>)

\* PassThroughNode never keeping an ancestor.
PassThroughNever(h, ref, sf) == Out(h, <<>>)

\* PassThroughNode copying icon and command as IncludeNode does.
PassThroughKeepsCommand(h, ref, sf) ==
    LET node == h[ref]
        filtered == FilterNodesByStatus(h, node.children, sf)
        filteredNode ==
            NewBlueprintNode(node.label, filtered.result, "Expanded",
                             node.blueprintData)
    IN  IF Len(filtered.result) > 0
        THEN Out(Append(filtered.heap,
                        [filteredNode EXCEPT !.description = node.description,
                                             !.iconPath = node.iconPath,
                                             !.command = node.command,
                                             !.tooltip = node.tooltip,
                                             !.origin = node.origin,
                                             !.under = sf]),
                 <<Len(filtered.heap) + 1>>)
        ELSE Out(h, <<>>)

\* PassThroughNode copying the node over its original children when one of
\* them survives.
PassThroughWholeSubtree(h, ref, sf) ==
    LET node == h[ref]
        filtered == FilterNodesByStatus(h, node.children, sf)
        filteredNode ==
            NewBlueprintNode(node.label, node.children, "Expanded", node.blueprintData)
    IN  IF Len(filtered.result) > 0
        THEN Out(Append(h, [filteredNode EXCEPT
                                !.description = node.description,
                                !.iconPath = Some(ThemeIcon("folder", Undefined)),
                                !.tooltip = node.tooltip,
                                !.origin = node.origin,
                                !.under = sf]),
                 <<Len(h) + 1>>)
        ELSE Out(h, <<>>)

\* Lines 146-158 and 176-188: the status of the node at ref is not shown; a
\* copy of it when a child survives, and nothing otherwise.
PassThroughNode(h, ref, sf) ==
    LET node == h[ref]
        filtered == FilterNodesByStatus(h, node.children, sf)
        filteredNode ==
            NewBlueprintNode(node.label, filtered.result, "Expanded",
                             node.blueprintData)
    IN  IF Len(filtered.result) > 0
        THEN Out(Append(filtered.heap,
                        [filteredNode EXCEPT !.description = node.description,
                                             !.iconPath = Some(ThemeIcon("folder", Undefined)),
                                             !.tooltip = node.tooltip,
                                             !.origin = node.origin,
                                             !.under = sf]),
                 <<Len(filtered.heap) + 1>>)
        ELSE Out(h, <<>>)

\* NonFormalizedOnlyBranch showing a formalized node that has children as it
\* shows a non-formalized one.
NonFormalizedOnlyShowsParents(h, ref, sf) ==
    IF ~h[ref].isFormalized \/ Len(h[ref].children) > 0 THEN IncludeNode(h, ref, sf)
    ELSE Out(h, <<>>)

\* The dedicated branch dropping every formalized node.
NonFormalizedOnlyDropsFormalized(h, ref, sf) ==
    IF ~h[ref].isFormalized THEN IncludeNode(h, ref, sf)
    ELSE Out(h, <<>>)

\* Lines 129-159: only non-formalized is selected.
NonFormalizedOnlyBranch(h, ref, sf) ==
    IF ~h[ref].isFormalized THEN IncludeNode(h, ref, sf)
    ELSE IF Len(h[ref].children) > 0 THEN PassThroughNode(h, ref, sf)
    ELSE Out(h, <<>>)

\* DefaultBranch taking an empty selection for no filter at all.
DefaultBranchEmptyShowsAll(h, ref, sf) ==
    IF sf = {} \/ (h[ref].isFormalized /\ "formalized" \in sf)
       \/ (~h[ref].isFormalized /\ "non-formalized" \in sf)
    THEN IncludeNode(h, ref, sf)
    ELSE IF Len(h[ref].children) > 0 THEN PassThroughNode(h, ref, sf)
    ELSE Out(h, <<>>)

\* DefaultBranch keeping a node that has no item whatever the selection.
DefaultBranchKeepsLeaves(h, ref, sf) ==
    LET showFormalized == "formalized" \in sf
        showNonFormalized == "non-formalized" \in sf
    IN  IF h[ref].blueprintData = None
           \/ (h[ref].isFormalized /\ showFormalized)
           \/ (~h[ref].isFormalized /\ showNonFormalized)
        THEN IncludeNode(h, ref, sf)
        ELSE IF Len(h[ref].children) > 0 THEN PassThroughNode(h, ref, sf)
        ELSE Out(h, <<>>)

\* Lines 160-190: the default.
DefaultBranch(h, ref, sf) ==
    LET showFormalized == "formalized" \in sf
        showNonFormalized == "non-formalized" \in sf
    IN  IF (h[ref].isFormalized /\ showFormalized)
           \/ (~h[ref].isFormalized /\ showNonFormalized)
        THEN IncludeNode(h, ref, sf)
        ELSE IF Len(h[ref].children) > 0 THEN PassThroughNode(h, ref, sf)
        ELSE Out(h, <<>>)

\* The body of the for loop of filterNodesByStatus, for the node at ref.
FilterNode(h, ref, sf) ==
    IF "formalized" \notin sf /\ "non-formalized" \in sf
    THEN NonFormalizedOnlyBranch(h, ref, sf)
    ELSE DefaultBranch(h, ref, sf)

\* filterNodesByStatus(nodes) under this.statusFilter = sf: the copies are
\* allocated in h, in the order the code creates them.
FilterNodesByStatus(h, nodes, sf) ==
    IF nodes = <<>> THEN Out(h, <<>>)
    ELSE LET first == FilterNode(h, Head(nodes), sf)
             rest == FilterNodesByStatus(first.heap, Tail(nodes), sf)
         IN  Out(rest.heap, first.result \o rest.result)

-----------------------------------------------------------------------------
(* The data files of the model *)

\* {full_name:"foo.bar", real_file:"/p/Foo.lean", range:{start:{line:41}}}
FooBar == Decl("foo.bar", "/p/Foo.lean", Some(41))
\* A declaration the extractor could not locate: no file, no range.
Unlocated == Decl("baz", Undefined, None)
\* {full_name:"foo.qux", real_file:"/p/Foo.lean", range:{start:{line:0}}}
FooQux == Decl("foo.qux", "/p/Foo.lean", Some(0))

\* {label:"A", stmt_type:"theorem"}
Theorem == Attr("A", Undefined, "theorem", Undefined, FALSE, FALSE, <<>>, <<>>)
\* {label:"B", stmt_type:"lemma", leanok:true, lean_names:["b1","b2"]}
Lemma == Attr("B", Undefined, "lemma", Undefined, TRUE, FALSE, <<>>, <<"b1", "b2">>)
\* A definition with an unlocated and two located declarations, and no label:
\* {title:"Def D", stmt_type:"definition", lean_declarations:[...]}
Definition ==
    Attr(Undefined, "Def D", "definition", Undefined, FALSE, FALSE,
         <<FooBar, Unlocated, FooQux>>, <<>>)
\* A record the extractor gave no label: "label": null.
Unlabelled == Attr(Null, "T", "theorem", Undefined, FALSE, TRUE, <<>>, <<>>)

\* The proof of a statement: {processed_text:"by A"}
Proof == Attr(Undefined, Undefined, Undefined, "by A", FALSE, FALSE, <<>>, <<>>)

Attrs == {Theorem, Lemma, Definition, Unlabelled}

RECURSIVE ItemsOfSize(_)
RECURSIVE ForestsOfSize(_)

\* The items that hold n items, themselves, their proof and the nested ones
\* counted; a proof has no children and no proof.
ItemsOfSize(n) ==
    IF n = 0 THEN {}
    ELSE { MkItem(a, cs, None) : a \in Attrs, cs \in ForestsOfSize(n - 1) }
         \cup (IF n = 1 THEN {}
               ELSE { MkItem(a, cs, Some(MkItem(Proof, <<>>, None))) :
                        a \in Attrs, cs \in ForestsOfSize(n - 2) })

\* The sequences of items that hold n items in all.
ForestsOfSize(n) ==
    IF n = 0 THEN {<<>>}
    ELSE UNION { { <<i>> \o f : i \in ItemsOfSize(j), f \in ForestsOfSize(n - j) } :
                 j \in 1..n }

\* A data file whose lines all parse, one item a line.
FileOf(items) == Some([k \in 1..Len(items) |-> Some(items[k])])

\* The data files of TreeSpec: none, or up to MaxNodes items.
Files == {None} \cup UNION { { FileOf(f) : f \in ForestsOfSize(n) } : n \in 0..MaxNodes }

RECURSIVE Chains(_, _)
\* The items that are a chain of n statements of attrs, each the only child of
\* the one before.
Chains(attrs, n) ==
    IF n = 1 THEN { MkItem(a, <<>>, None) : a \in attrs }
    ELSE { MkItem(a, <<c>>, None) : a \in attrs, c \in Chains(attrs, n - 1) }

\* None, or one chain of up to depth statements of attrs.
ChainFiles(attrs, depth) ==
    {None} \cup UNION { { FileOf(<<c>>) : c \in Chains(attrs, n) } : n \in 1..depth }

-----------------------------------------------------------------------------
(* The provider and the display layer *)

\* lastCall is the last call that was answered from the tree and under the
\* status filter of this state: its operation (refresh, getChildren,
\* getTreeItem), its element (0 for none) and the references the last
\* getChildren returned.
NoCall == [op |-> "none", element |-> 0, result |-> <<>>]

\* The objects buildTree made are the first of the heap; every later object
\* is a copy.
Canonical(h) == {i \in DOMAIN h : h[i].origin = i}

\* An invocation of the parse command that has not begun.  pc is where the
\* invocation is; folder, ok and code are what getWorkspaceFolder,
\* installLeanblueprint and the close event gave it ("?" and -1 before they
\* did); closed is the rank of its close event among those of all invocations
\* (0 before); tree is what its load gave, fired the events its refresh fired.
NotStarted ==
    [pc |-> "idle", folder |-> "?", ok |-> "?", code |-> -1, closed |-> 0,
     tree |-> None, fired |-> 0]

Fresh ==
    /\ heap = <<>>
    /\ rootNodes = <<>>
    /\ statusFilter = Statuses
    /\ showOnlyUnformalized = FALSE
    /\ searchText = ""
    /\ shown = {}
    /\ expands = 0
    /\ lastCall = NoCall
    /\ notified = <<>>
    /\ runs = [r \in 1..MaxRuns |-> NotStarted]

\* What a listener reads of the provider when it is notified: its fields.
Provider ==
    [rootNodes |-> rootNodes, statusFilter |-> statusFilter,
     showOnlyUnformalized |-> showOnlyUnformalized, searchText |-> searchText]

\* A mutator that assigns its field and then fires onDidChangeTreeData once
\* (this._onDidChangeTreeData.fire() is its last statement): what the listener
\* reads on the events of the call, the provider being before as the call
\* begins and after once the field is assigned.
FiresBeforeAssigning(before, after) == <<before>>
FiresTwice(before, after) == <<after, after>>
Fire(before, after) == <<after>>

\* The provider as constructed, before the startup load, over any data file.
Init == file \in ChainFiles({Theorem, Lemma}, MaxDepth) /\ Fresh

TreeInit == file \in Files /\ Fresh

\* A load building the new nodes after those of the tree that is shown and
\* adding the new roots to the old.
LoadIntoShownTree ==
    LET canonical == SubSeq(heap, 1, Cardinality({i \in DOMAIN heap : heap[i].origin = i}))
        parsed == SelectSeq(file[1], LAMBDA line : line # None)
        data == [i \in 1..Len(parsed) |-> parsed[i][1]]
        treeNodes == BuildTree(canonical, data)
    IN  /\ LoadBlueprintTreeFromJsonl(file) # None
        /\ heap' = treeNodes.heap
        /\ rootNodes' = rootNodes \o treeNodes.result
        /\ shown' = {}
        /\ expands' = 0
        /\ lastCall' = [op |-> "refresh", element |-> 0, result |-> <<>>]
        /\ UNCHANGED <<runs, file, statusFilter, showOnlyUnformalized, searchText>>
        /\ notified' = Fire(Provider, Provider')

\* Lines 705-708 and 411-414: load the data file and, when that gave a tree,
\* refresh(treeNodes).  The objects of the replaced tree and the elements the
\* display layer held of it are garbage.
Load ==
    LET treeNodes == LoadBlueprintTreeFromJsonl(file) IN
    /\ treeNodes # None
    /\ heap' = treeNodes[1].heap
    /\ rootNodes' = treeNodes[1].result
    /\ shown' = {}
    /\ expands' = 0
    /\ lastCall' = [op |-> "refresh", element |-> 0, result |-> <<>>]
    /\ UNCHANGED <<runs, file, statusFilter, showOnlyUnformalized, searchText>>
    /\ notified' = Fire(Provider, Provider')

\* A load that gave no tree calling refresh([]).
LoadFailedRefreshesEmpty ==
    /\ LoadBlueprintTreeFromJsonl(file) = None
    /\ heap' = <<>>
    /\ rootNodes' = <<>>
    /\ shown' = {}
    /\ expands' = 0
    /\ lastCall' = [op |-> IF file = None THEN "missing" ELSE "showErrorMessage",
                    element |-> 0, result |-> <<>>]
    /\ UNCHANGED <<runs, file, statusFilter, showOnlyUnformalized, searchText>>
    /\ notified' = Fire(Provider, Provider')

\* The same two places when the data file gave no tree: it is missing, or
\* reading it threw and the error message was shown; refresh is not called.
LoadFailed ==
    /\ LoadBlueprintTreeFromJsonl(file) = None
    /\ lastCall' = [op |-> IF file = None THEN "missing" ELSE "showErrorMessage",
                    element |-> 0, result |-> <<>>]
    /\ UNCHANGED <<runs, file, heap, rootNodes, statusFilter, showOnlyUnformalized,
                   searchText, shown, expands, notified>>

\* setFilter(showOnlyUnformalized)
SetFilter ==
    /\ \E b \in BOOLEAN : showOnlyUnformalized' = b
    /\ UNCHANGED <<runs, file, heap, rootNodes, statusFilter, searchText, shown, expands, lastCall>>
    /\ notified' = Fire(Provider, Provider')

\* setStatusFilter(statuses)
SetStatusFilter ==
    /\ \E statuses \in SUBSET Statuses : statusFilter' = statuses
    /\ lastCall' = NoCall
    /\ UNCHANGED <<runs, file, heap, rootNodes, showOnlyUnformalized, searchText, shown,
                   expands>>
    /\ notified' = Fire(Provider, Provider')

SearchTexts == {"", "A"}

\* setSearchText(text)
SetSearchText ==
    /\ \E text \in SearchTexts : searchText' = text
    /\ UNCHANGED <<runs, file, heap, rootNodes, statusFilter, showOnlyUnformalized, shown,
                   expands, lastCall>>
    /\ notified' = Fire(Provider, Provider')

\* getChildren(undefined) listing, when a search text is set, only the roots
\* whose label is the text.
GetRootsSearching ==
    LET canonical == SubSeq(heap, 1, Cardinality(Canonical(heap)))
        matching == SelectSeq(rootNodes,
                              LAMBDA r : searchText = "" \/ canonical[r].label = searchText)
        out == FilterNodesByStatus(canonical, matching, statusFilter)
    IN  /\ heap' = out.heap
        /\ shown' = Range(out.result)
        /\ expands' = 0
        /\ lastCall' = [op |-> "getChildren", element |-> 0, result |-> out.result]
        /\ UNCHANGED <<runs, file, rootNodes, statusFilter, showOnlyUnformalized, searchText,
                       notified>>

\* getChildren(undefined): the display layer renders anew, the elements it held
\* before are garbage.
GetRoots ==
    LET canonical == SubSeq(heap, 1, Cardinality(Canonical(heap)))
        out == FilterNodesByStatus(canonical, rootNodes, statusFilter)
    IN  /\ heap' = out.heap
        /\ shown' = Range(out.result)
        /\ expands' = 0
        /\ lastCall' = [op |-> "getChildren", element |-> 0, result |-> out.result]
        /\ UNCHANGED <<runs, file, rootNodes, statusFilter, showOnlyUnformalized, searchText,
                       notified>>

\* getChildren(element), element one the display layer holds.
GetChildren ==
    /\ expands < MaxExpand
    /\ \E element \in shown :
         LET out == FilterNodesByStatus(heap, heap[element].children, statusFilter) IN
         /\ heap' = out.heap
         /\ shown' = shown \cup Range(out.result)
         /\ lastCall' = [op |-> "getChildren", element |-> element,
                         result |-> out.result]
    /\ expands' = expands + 1
    /\ UNCHANGED <<runs, file, rootNodes, statusFilter, showOnlyUnformalized, searchText,
                   notified>>

\* getTreeItem returning the element as it is.
TreeItemUntouched(node) == node

\* The node getTreeItem(element) leaves in element.
TreeItem(node) ==
    IF ~node.isFormalized /\ node.blueprintData # None
       /\ Truthy(node.blueprintData[1].stmt_type)
    THEN [node EXCEPT
             !.command = Some([title |-> "Select for Formalization",
                               command |-> "leanblueprintcopilot.selectNodeForFormalization",
                               arguments |-> <<node.blueprintData[1]>>])]
    ELSE node

\* getTreeItem(element), element one the display layer holds.
GetTreeItem ==
    /\ \E element \in shown :
         /\ heap' = [heap EXCEPT ![element] = TreeItem(heap[element])]
         /\ lastCall' = [lastCall EXCEPT !.op = "getTreeItem", !.element = element]
    /\ UNCHANGED <<runs, file, rootNodes, statusFilter, showOnlyUnformalized, searchText,
                   shown, expands, notified>>

Next ==
    \/ Load
    \/ SetFilter
    \/ SetStatusFilter
    \/ SetSearchText
    \/ GetRoots
    \/ GetChildren
    \/ GetTreeItem

Spec == Init /\ [][Next]_vars

\* What showQuickPick resolves to: undefined when the pick is cancelled, or
\* the options that were ticked, possibly none.
Picks == {None} \cup {Some(statuses) : statuses \in SUBSET Statuses}

\* The command passing on whatever was picked, nothing ticked included.
FilterBlueprintTreeAnySelection(selected) ==
    IF selected # None
    THEN /\ statusFilter' = selected[1]
         /\ lastCall' = NoCall
         /\ UNCHANGED <<runs, file, heap, rootNodes, showOnlyUnformalized, searchText, shown,
                        expands>>
         /\ notified' = Fire(Provider, Provider')
    ELSE UNCHANGED vars

\* The command leanblueprintcopilot.filterBlueprintTree, the user having picked
\* selected: setStatusFilter is called when something was ticked.
FilterBlueprintTree(selected) ==
    IF selected # None /\ Cardinality(selected[1]) > 0
    THEN /\ statusFilter' = selected[1]
         /\ lastCall' = NoCall
         /\ UNCHANGED <<runs, file, heap, rootNodes, showOnlyUnformalized, searchText, shown,
                        expands>>
         /\ notified' = Fire(Provider, Provider')
    ELSE UNCHANGED vars

\* The command leanblueprintcopilot.searchBlueprintTree: setSearchText is
\* called unless the input box was cancelled.
SearchBlueprintTree ==
    \E input \in {None} \cup {Some(text) : text \in SearchTexts} :
        IF input # None
        THEN /\ searchText' = input[1]
             /\ UNCHANGED <<runs, file, heap, rootNodes, statusFilter, showOnlyUnformalized,
                            shown, expands, lastCall>>
             /\ notified' = Fire(Provider, Provider')
        ELSE UNCHANGED vars

\* The provider driven through the commands of the view title.
CommandNext ==
    \/ Load
    \/ \E selected \in Picks : FilterBlueprintTree(selected)
    \/ SearchBlueprintTree
    \/ GetRoots

CommandSpec == Init /\ [][CommandNext]_vars

\* getChildren(element), element one of those the last getChildren returned:
\* the display layer walks down the tree it renders.
Descend ==
    /\ \E element \in Range(lastCall.result) :
         LET out == FilterNodesByStatus(heap, heap[element].children, statusFilter) IN
         /\ heap' = out.heap
         /\ shown' = shown \cup Range(out.result)
         /\ lastCall' = [op |-> "getChildren", element |-> element,
                         result |-> out.result]
    /\ expands' = expands + 1
    /\ UNCHANGED <<runs, file, rootNodes, statusFilter, showOnlyUnformalized, searchText,
                   notified>>

\* The display layer rendering the tree level by level, a change of the status
\* filter making it start again from the roots.
WalkNext ==
    \/ Load
    \/ SetStatusFilter
    \/ GetRoots
    \/ GetTreeItem
    \/ Descend

WalkInit == file \in ChainFiles({Theorem, Lemma, Definition}, MaxChain) /\ Fresh

WalkSpec == WalkInit /\ [][WalkNext]_vars

\* A bad line: JSON.parse throws on it.
NotJson == None

\* {label:"C", stmt_type:"theorem", fully_proved:true}
FullyProved == Attr("C", Undefined, "theorem", Undefined, FALSE, TRUE, <<>>, <<>>)

\* The lines of the data files of LoadSpec.
Lines == {NotJson} \cup {Some(MkItem(a, <<>>, None)) : a \in {Theorem, FullyProved, Definition}}

RECURSIVE LinesOfLen(_)
LinesOfLen(n) ==
    IF n = 0 THEN {<<>>}
    ELSE {<<l>> \o ls : l \in Lines, ls \in LinesOfLen(n - 1)}

\* The data files of LoadSpec: missing, throwing, or up to MaxLines lines.
LoadFiles == {None, Throwing} \cup UNION { {Some(ls) : ls \in LinesOfLen(n)} : n \in 0..MaxLines }

\* The extractor (extractor.py, run by the parse command) and anything else
\* that writes, removes or locks the data file; what it did to the file is
\* seen by the next load.
Extract ==
    /\ file' \in LoadFiles
    /\ lastCall' = NoCall
    /\ UNCHANGED <<runs, heap, rootNodes, statusFilter, showOnlyUnformalized, searchText,
                   shown, expands, notified>>

\* Loads interleaved with runs of the extractor and requests of the roots.
LoadNext ==
    \/ Load
    \/ LoadFailed
    \/ Extract
    \/ GetRoots

LoadInit == file \in LoadFiles /\ Fresh

LoadSpec == LoadInit /\ [][LoadNext]_vars

\* The provider with the roots requested under every status filter, over the
\* larger set of data files.
TreeNext ==
    \/ Load
    \/ SetStatusFilter
    \/ GetRoots

TreeSpec == TreeInit /\ [][TreeNext]_vars

\* Items with every combination of absent, empty and given texts; a label may
\* also be null.
TextAttrs ==
    {Attr(label, title, stmt_type, processed_text, FALSE, FALSE, <<>>, <<>>) :
        label \in {Undefined, Null, "", "L"}, title \in {Undefined, "", "T"},
        stmt_type \in {Undefined, "theorem"}, processed_text \in {Undefined, "", "P"}}

\* One chain of up to MaxText such items, or a statement with such an item as
\* its proof.
TextFiles ==
    ChainFiles(TextAttrs, MaxText)
      \cup {FileOf(<<MkItem(Theorem, <<>>, <<MkItem(a, <<>>, None)>>)>>) : a \in TextAttrs}

TextInit == file \in TextFiles /\ Fresh

\* The same operations over items of every combination of texts.
TextNext ==
    \/ Load
    \/ SetStatusFilter
    \/ GetRoots

TextSpec == TextInit /\ [][TextNext]_vars

\* Declaration references that lack the start line, the file, or have an
\* empty file path.
NoRange == Decl("nr", "/p/Foo.lean", None)
NoFile == Decl("nf", Undefined, Some(7))
EmptyFile == Decl("ef", "", Some(7))

DeclLists == {<<>>, <<NoRange, EmptyFile>>, <<FooBar, NoFile, FooQux>>}

\* Statements with every combination of leanok, fully_proved and declarations.
ClassAttrs ==
    {Attr("S", Undefined, "theorem", Undefined, leanok, fully_proved, decls, <<>>) :
        leanok \in BOOLEAN, fully_proved \in BOOLEAN, decls \in DeclLists}

ClassInit == file \in ChainFiles(ClassAttrs, MaxNest) /\ Fresh

\* The same operations over chains of statements of every classification.
ClassNext ==
    \/ Load
    \/ SetStatusFilter
    \/ GetRoots

ClassSpec == ClassInit /\ [][ClassNext]_vars

-----------------------------------------------------------------------------
(* What the display layer sees of a tree *)

RECURSIVE Reach(_, _)
\* The references of the nodes of the trees at refs.
Reach(h, refs) ==
    IF refs = <<>> THEN {}
    ELSE {Head(refs)} \cup Reach(h, h[Head(refs)].children) \cup Reach(h, Tail(refs))

Descendants(h, ref) == Reach(h, h[ref].children)

RECURSIVE Appearance(_, _)
\* The node at ref as listed: which node it is or copies, its label, icon,
\* command, description and tooltip, and the same of its children.
Appearance(h, ref) ==
    [origin |-> h[ref].origin, label |-> h[ref].label, iconPath |-> h[ref].iconPath,
     command |-> h[ref].command, description |-> h[ref].description,
     tooltip |-> h[ref].tooltip,
     children |-> [k \in DOMAIN h[ref].children |-> Appearance(h, h[ref].children[k])]]

RECURSIVE Display(_, _)
\* Every field of the class of the node at ref and of its descendants.
Display(h, ref) ==
    [label |-> h[ref].label, collapsibleState |-> h[ref].collapsibleState,
     blueprintData |-> h[ref].blueprintData, isFormalized |-> h[ref].isFormalized,
     contextValue |-> h[ref].contextValue, iconPath |-> h[ref].iconPath,
     command |-> h[ref].command, description |-> h[ref].description,
     tooltip |-> h[ref].tooltip,
     children |-> [k \in DOMAIN h[ref].children |-> Display(h, h[ref].children[k])]]

Displays(h, refs) == [k \in DOMAIN refs |-> Display(h, refs[k])]

Origins(h, refs) == [k \in DOMAIN refs |-> h[refs[k]].origin]

\* The status of a node is one of those of sf.
HasStatus(node, sf) ==
    \/ node.isFormalized /\ "formalized" \in sf
    \/ ~node.isFormalized /\ "non-formalized" \in sf

\* The node at ref, or one of its descendants, has a status of sf.
Survives(h, ref, sf) ==
    \/ HasStatus(h[ref], sf)
    \/ \E d \in Descendants(h, ref) : HasStatus(h[d], sf)

\* The roots were just requested: lastCall.result is getChildren(undefined).
RootsListed == lastCall.op = "getChildren" /\ lastCall.element = 0

\* The children of an element were just requested.
ChildrenListed == lastCall.op = "getChildren" /\ lastCall.element # 0

-----------------------------------------------------------------------------
(* C1 - C10 *)

\* C1: with both statuses in the status filter, getChildren(undefined) lists
\* every node of the built tree at its position, with the label, icon, command,
\* description and tooltip of the original, and so for the children at every
\* level.
C1_BothStatusesIdentity ==
    (RootsListed /\ statusFilter = Statuses) =>
        /\ Origins(heap, lastCall.result) = rootNodes
        /\ \A k \in DOMAIN rootNodes :
             Appearance(heap, lastCall.result[k]) = Appearance(heap, rootNodes[k])

\* The roots were listed under both statuses and one of them has both a child
\* that is a statement and a declaration leaf.
C1_Witness ==
    /\ RootsListed /\ statusFilter = Statuses
    /\ \E r \in Range(lastCall.result) :
         /\ Len(heap[r].children) >= 2
         /\ \E c \in Range(heap[r].children) : heap[c].iconPath # None
         /\ \E c \in Range(heap[r].children) : heap[c].blueprintData = None

\* C2: with an empty status filter getChildren returns the empty sequence, for
\* the roots and for the children of every node of the tree.
C2_NoStatusEmpty ==
    statusFilter = {} =>
        /\ lastCall.op = "getChildren" => lastCall.result = <<>>
        /\ \A i \in Reach(heap, rootNodes) :
             FilterNodesByStatus(heap, heap[i].children, {}).result = <<>>

\* The roots of a tree of three nodes were requested under the empty filter.
C2_Witness ==
    /\ RootsListed /\ statusFilter = {}
    /\ Cardinality(Reach(heap, rootNodes)) >= 3
    /\ \E i \in Range(rootNodes) : Len(heap[i].children) > 0

\* C3: getChildren(element) of an element that getChildren returned under the
\* status filter still set yields the children the element already holds:
\* filtering a filtered tree again under the same status set changes nothing
\* (nodes, order, children, expandability, icon, command, description, tooltip).
C3_FilterIdempotent ==
    (ChildrenListed /\ heap[lastCall.element].under = statusFilter) =>
        Displays(heap, lastCall.result) = Displays(heap, heap[lastCall.element].children)

\* The children of a returned element were requested under the filter it was
\* made under, and there is one: a copy made of a copy.
C3_Witness ==
    /\ ChildrenListed /\ heap[lastCall.element].under = statusFilter
    /\ lastCall.result # <<>>
    /\ lastCall.result # heap[lastCall.element].children
    /\ Cardinality(statusFilter) = 1

\* The canonical tree: every field of every node under rootNodes.
CanonicalTree == Displays(heap, rootNodes)

\* C4: no step but refresh(nodes) changes the canonical tree: getChildren,
\* getTreeItem, setStatusFilter, setFilter and setSearchText leave rootNodes and
\* every field of every node under it as they were.
C4_OnlyRefreshChangesTree == [][CanonicalTree' = CanonicalTree \/ Load]_vars

\* getTreeItem has set the formalization command on a copy whose original
\* keeps its own command, after setFilter and setSearchText were called.
C4_Witness ==
    /\ lastCall.op = "getTreeItem"
    /\ heap[lastCall.element].command # None
    /\ heap[lastCall.element].command[1].command
           = "leanblueprintcopilot.selectNodeForFormalization"
    /\ heap[heap[lastCall.element].origin].command # heap[lastCall.element].command
    /\ heap[lastCall.element].origin \in Reach(heap, rootNodes)
    /\ showOnlyUnformalized
    /\ searchText # ""
    /\ statusFilter # Statuses

\* C5: a node is listed if and only if its own status, or that of one of its
\* descendants, is in the status filter: the roots listed are the surviving
\* roots, in order, and the children of every listed node are the surviving
\* children of its original, in order; the others are dropped with all below.
C5_ListedIffSurvives ==
    RootsListed =>
        /\ Origins(heap, lastCall.result)
             = SelectSeq(rootNodes, LAMBDA i : Survives(heap, i, statusFilter))
        /\ \A o \in Reach(heap, lastCall.result) :
             Origins(heap, heap[o].children)
               = SelectSeq(heap[heap[o].origin].children,
                           LAMBDA i : Survives(heap, i, statusFilter))

\* Under one status only, a root was dropped with its subtree and another is
\* listed for a descendant alone.
C5_Witness ==
    /\ RootsListed /\ Cardinality(statusFilter) = 1
    /\ Len(lastCall.result) < Len(rootNodes)
    /\ \E o \in Range(lastCall.result) :
         /\ ~HasStatus(heap[o], statusFilter)
         /\ Len(heap[o].children) < Len(heap[heap[o].origin].children)

\* The node of the built tree that o copies.
Original(o) == heap[heap[o].origin]

\* [A (theorem) with child B (lemma, leanok)]
FileAB == FileOf(<<MkItem(Theorem, <<MkItem(Lemma, <<>>, None)>>, None)>>)

\* C6: every node whose own status is in the status filter is listed, once;
\* its children are the surviving ones only, each listed for the same filter,
\* and with none surviving it is listed without children and not expandable.
\* [A with child B (leanok)] under {non-formalized} is A alone, state None.
C6_MatchKeptOverFilteredChildren ==
    RootsListed =>
        LET out == Reach(heap, lastCall.result) IN
        /\ \A i \in Reach(heap, rootNodes) :
             HasStatus(heap[i], statusFilter) =>
                 Cardinality({o \in out : heap[o].origin = i}) = 1
        /\ \A o \in out :
             HasStatus(heap[o], statusFilter) =>
                 /\ \A c \in Range(heap[o].children) :
                      /\ Survives(heap, heap[c].origin, statusFilter)
                      /\ heap[c].under = statusFilter
                 /\ (\A i \in Range(Original(o).children) :
                        ~Survives(heap, i, statusFilter))
                      => (heap[o].children = <<>> /\ heap[o].collapsibleState = "None")
        /\ (file = FileAB /\ statusFilter = {"non-formalized"} /\ rootNodes # <<>>) =>
             /\ Len(lastCall.result) = 1
             /\ heap[lastCall.result[1]].label = "A"
             /\ heap[lastCall.result[1]].children = <<>>
             /\ heap[lastCall.result[1]].collapsibleState = "None"

\* [A with child B (leanok)] was loaded and its roots listed under
\* {non-formalized}.
C6_Witness ==
    /\ RootsListed /\ file = FileAB /\ statusFilter = {"non-formalized"}
    /\ lastCall.result # <<>>
    /\ Original(lastCall.result[1]).children # <<>>

Folder == Some(ThemeIcon("folder", Undefined))

\* C8: under {non-formalized} every formalized node listed has the folder
\* icon, no command, is expandable and has a non-formalized descendant listed
\* below it.
C8_FormalizedOnlyAsFolder ==
    (RootsListed /\ statusFilter = {"non-formalized"}) =>
        \A o \in Reach(heap, lastCall.result) :
            heap[o].isFormalized =>
                /\ heap[o].iconPath = Folder
                /\ heap[o].command = None
                /\ heap[o].collapsibleState = "Expanded"
                /\ \E d \in Descendants(heap, o) : ~heap[d].isFormalized
                /\ \E d \in Descendants(heap, heap[o].origin) : ~heap[d].isFormalized

\* Under {non-formalized} a formalized statement that has a label is listed
\* above a non-formalized statement, and a formalized one was dropped.
C8_Witness ==
    /\ RootsListed /\ statusFilter = {"non-formalized"}
    /\ \E o \in Reach(heap, lastCall.result) :
         /\ heap[o].isFormalized
         /\ Original(o).command # None
         /\ \E c \in Range(heap[o].children) : heap[c].blueprintData # None
    /\ \E i \in Reach(heap, rootNodes) :
         heap[i].isFormalized /\ ~Survives(heap, i, statusFilter)

\* The tree is one chain root -> child -> grandchild, the status filter is a
\* single status, and of the three only the grandchild has it.
OnlyGrandchildMatches ==
    /\ Cardinality(statusFilter) = 1
    /\ Len(rootNodes) = 1
    /\ Len(heap[rootNodes[1]].children) = 1
    /\ LET child == heap[rootNodes[1]].children[1] IN
       /\ Len(heap[child].children) = 1
       /\ heap[heap[child].children[1]].children = <<>>
       /\ ~HasStatus(heap[rootNodes[1]], statusFilter)
       /\ ~HasStatus(heap[child], statusFilter)
       /\ HasStatus(heap[heap[child].children[1]], statusFilter)

ChainRoot == rootNodes[1]
ChainChild == heap[ChainRoot].children[1]
ChainGrandchild == heap[ChainChild].children[1]

\* The command getTreeItem sets.
SelectForFormalization(data) ==
    Some([title |-> "Select for Formalization",
          command |-> "leanblueprintcopilot.selectNodeForFormalization",
          arguments |-> <<data>>])

\* What the display layer is given of the chain, level by level: the roots
\* are the copy of the root alone, its children the copy of the child alone,
\* the children of that the copy of the grandchild alone, which has none; root
\* and child carry the folder icon.
ChainListedByLevel ==
    /\ RootsListed =>
         /\ Origins(heap, lastCall.result) = <<ChainRoot>>
         /\ heap[lastCall.result[1]].iconPath = Folder
    /\ (ChildrenListed /\ heap[lastCall.element].under = statusFilter) =>
         /\ heap[lastCall.element].origin = ChainRoot =>
              /\ Origins(heap, lastCall.result) = <<ChainChild>>
              /\ heap[lastCall.result[1]].iconPath = Folder
         /\ heap[lastCall.element].origin = ChainChild =>
              /\ Origins(heap, lastCall.result) = <<ChainGrandchild>>
              /\ heap[lastCall.result[1]].children = <<>>
              /\ heap[lastCall.result[1]].iconPath = heap[ChainGrandchild].iconPath
         /\ heap[lastCall.element].origin = ChainGrandchild => lastCall.result = <<>>

\* getTreeItem was just applied to the copy of the root or of the child that
\* was made under the status filter still set.
PassThroughItemised ==
    /\ lastCall.op = "getTreeItem"
    /\ heap[lastCall.element].under = statusFilter
    /\ heap[lastCall.element].origin \in {ChainRoot, ChainChild}

\* C7 as claimed: in such a chain the display layer is given a tree of depth
\* three whose root and child carry the folder icon and, after getTreeItem, no
\* command, under {formalized} as under {non-formalized}.
C7_PassThroughNoCommand ==
    OnlyGrandchildMatches =>
        /\ ChainListedByLevel
        /\ PassThroughItemised =>
             /\ heap[lastCall.element].iconPath = Folder
             /\ heap[lastCall.element].command = None

\* C7 amended: the tree given has depth three and root and child carry the
\* folder icon under both single-status filters; after getTreeItem they have
\* no command under {non-formalized}, and under {formalized} they have the
\* command selectNodeForFormalization when their item has a stmt_type and no
\* command otherwise.
C7_PassThroughFolder ==
    OnlyGrandchildMatches =>
        /\ ChainListedByLevel
        /\ PassThroughItemised =>
             /\ heap[lastCall.element].iconPath = Folder
             /\ heap[lastCall.element].command =
                  IF statusFilter = {"formalized"}
                     /\ Truthy(heap[lastCall.element].blueprintData[1].stmt_type)
                  THEN SelectForFormalization(heap[lastCall.element].blueprintData[1])
                  ELSE None

\* Under {formalized} the display layer has walked down to the grandchild,
\* getTreeItem applied to the copies of root and child on the way.
C7_Witness ==
    /\ OnlyGrandchildMatches /\ statusFilter = {"formalized"}
    /\ ChildrenListed
    /\ heap[lastCall.element].origin = ChainChild
    /\ heap[lastCall.element].command # None
    /\ Len(lastCall.result) = 1
    /\ \E e \in shown : heap[e].origin = ChainRoot /\ heap[e].command # None

\* The data of the nodes at refs, None for a declaration leaf.
DataOf(h, refs) == [k \in DOMAIN refs |-> h[refs[k]].blueprintData]

\* The items of a sequence that buildTree makes nodes of, as data of nodes.
Labelled(items) ==
    LET kept == SelectSeq(items, LAMBDA n : n.label # Null)
    IN  [k \in DOMAIN kept |-> Some(kept[k])]

\* The declarations that have a file and a start line.
Located(decls) ==
    SelectSeq(decls, LAMBDA d : Truthy(d.real_file) /\ d.range # None)

\* The items of the lines of a data file.
ItemsOf(f) == [k \in DOMAIN f[1] |-> f[1][k][1]]

\* C9: the children of every node built from an item are the node of its
\* proof, then the nodes of its children in their order, then the leaves of
\* its declarations in their order; and the roots follow the order of the
\* lines of the file.
C9_BuildOrder ==
    lastCall.op = "refresh" =>
        /\ DataOf(heap, rootNodes) = Labelled(ItemsOf(file))
        /\ \A i \in Reach(heap, rootNodes) :
             heap[i].blueprintData # None =>
                 LET n == heap[i].blueprintData[1]
                     located == Located(n.lean_declarations)
                     first == Len(Labelled(n.proof)) + Len(Labelled(n.children))
                 IN  /\ DataOf(heap, heap[i].children)
                          = Labelled(n.proof) \o Labelled(n.children)
                            \o [k \in DOMAIN located |-> None]
                     /\ \A k \in DOMAIN located :
                          heap[heap[i].children[first + k]].label
                            = "Lean: " \o located[k].full_name

\* A node was built of an item with a proof, a child and two located
\* declarations.
C9_Witness ==
    /\ lastCall.op = "refresh"
    /\ \E i \in Reach(heap, rootNodes) :
         /\ Len(heap[i].children) = 4
         /\ heap[i].blueprintData[1].proof # None
         /\ heap[i].blueprintData[1].children # <<>>

\* C10: the roots buildTree makes are the nodes of the records whose label
\* is present and not null, one each; a record whose label is null or absent
\* has none.
C10_DropNullOrAbsentLabel ==
    lastCall.op = "refresh" =>
        LET kept == SelectSeq(ItemsOf(file), LAMBDA n : n.label \notin {Null, Undefined})
        IN  DataOf(heap, rootNodes) = [k \in DOMAIN kept |-> Some(kept[k])]

-----------------------------------------------------------------------------
(* C11 - C20 *)

C12_ExpandableIffChildren ==
    \A i \in DOMAIN heap :
        (heap[i].collapsibleState # "None") <=> (heap[i].children # <<>>)

\* The roots were listed under one status: a copy that kept none of the
\* children of its original, a copy that is expanded, and an original that is
\* collapsed.
C12_Witness ==
    /\ RootsListed /\ Cardinality(statusFilter) = 1
    /\ \E r \in Range(lastCall.result) :
         heap[r].children = <<>> /\ heap[heap[r].origin].children # <<>>
    /\ \E r \in Range(lastCall.result) : heap[r].collapsibleState = "Expanded"
    /\ \E i \in Range(rootNodes) : heap[i].collapsibleState = "Collapsed"

\* The declaration entries with a non-empty real_file and a start line.
WellFormed(decls) ==
    SelectSeq(decls, LAMBDA d : d.real_file \notin {Undefined, Null, ""} /\ d.range # None)

\* The children of the node at ref that are declaration leaves.
LeavesOf(h, ref) == SelectSeq(h[ref].children, LAMBDA c : h[c].blueprintData = None)

\* C13: the leaves of a built node are one for each declaration entry with
\* a non-empty real_file and a start line n, in their order: the text is
\* "Lean: " + full_name, the target is real_file at line n + 1, and the leaf
\* has no children and is not expandable.  foo.bar at line 41 of /p/Foo.lean
\* gives "Lean: foo.bar" and line 42.
C13_DeclarationLeaf ==
    lastCall.op = "refresh" =>
        \A i \in Reach(heap, rootNodes) :
            heap[i].blueprintData # None =>
                LET entries == WellFormed(heap[i].blueprintData[1].lean_declarations)
                    leaves == LeavesOf(heap, i)
                IN  /\ Len(leaves) = Len(entries)
                    /\ \A k \in DOMAIN entries :
                         LET leaf == heap[leaves[k]]
                             target == leaf.command[1].arguments[1]
                         IN  /\ leaf.label = "Lean: " \o entries[k].full_name
                             /\ leaf.command[1].command = "vscode.open"
                             /\ target.path = entries[k].real_file
                             /\ target.fragment = "L" \o ToString(entries[k].range[1] + 1)
                             /\ leaf.children = <<>>
                             /\ leaf.collapsibleState = "None"
                             /\ entries[k] = FooBar =>
                                    /\ leaf.label = "Lean: foo.bar"
                                    /\ target = [path |-> "/p/Foo.lean", fragment |-> "L42"]

\* A statement with the declarations foo.bar, one without file and foo.qux
\* was built over a child: a child and two leaves.
C13_Witness ==
    /\ lastCall.op = "refresh"
    /\ \E i \in Reach(heap, rootNodes) :
         /\ heap[i].blueprintData # None
         /\ heap[i].blueprintData[1].lean_declarations = <<FooBar, NoFile, FooQux>>
         /\ Len(heap[i].children) = 3
         /\ Len(LeavesOf(heap, i)) = 2

\* The item has a declaration entry without a source file or a start line.
HasMalformed(n) == Len(WellFormed(n.lean_declarations)) < Len(n.lean_declarations)

RECURSIVE Mirrors(_, _, _)
\* The nodes at refs are the nodes of items, one each and in order, and below
\* each are the nodes of its proof and of its children, mirrored the same
\* way, and after them one leaf for each well-formed declaration.
Mirrors(h, refs, items) ==
    /\ Len(refs) = Len(items)
    /\ \A k \in DOMAIN items :
         LET node == h[refs[k]]
             nested == items[k].proof \o items[k].children
             entries == WellFormed(items[k].lean_declarations)
         IN  /\ node.blueprintData = Some(items[k])
             /\ Len(node.children) = Len(nested) + Len(entries)
             /\ Mirrors(h, SubSeq(node.children, 1, Len(nested)), nested)
             /\ \A j \in DOMAIN entries :
                  h[node.children[Len(nested) + j]].blueprintData = None

RECURSIVE NodeCount(_)
\* One for each item reachable through children and proof and one for each
\* well-formed declaration of these.
NodeCount(items) ==
    IF items = <<>> THEN 0
    ELSE 1 + Len(WellFormed(Head(items).lean_declarations))
           + NodeCount(Head(items).proof \o Head(items).children)
           + NodeCount(Tail(items))

\* C15: for a data file whose lines all have a label, the built tree has
\* one node for each item reachable through children and proof at any depth
\* and one leaf for each well-formed declaration, related as the items are;
\* no item has two nodes and none is omitted.
C15_TreeMirrorsItems ==
    (/\ lastCall.op = "refresh"
     /\ \A k \in DOMAIN ItemsOf(file) : ItemsOf(file)[k].label \notin {Null, Undefined}) =>
        /\ Mirrors(heap, rootNodes, ItemsOf(file))
        /\ Cardinality(Reach(heap, rootNodes)) = NodeCount(ItemsOf(file))

\* The items of the lines of a data file that are JSON.
ParsedOf(f) ==
    LET valid == SelectSeq(f[1], LAMBDA line : line # NotJson)
    IN  [k \in DOMAIN valid |-> valid[k][1]]

\* C16: a line that is not JSON is skipped by itself: a data file that is
\* there and readable always loads, never ends in the failure branch, and the
\* roots after the load are the nodes of the lines that are JSON, one each and
\* in the order of the file.
C16_BadLinesSkipped ==
    /\ Len(file) = 1 => LoadBlueprintTreeFromJsonl(file) # None
    /\ lastCall.op \in {"missing", "showErrorMessage"} => Len(file) # 1
    /\ lastCall.op = "refresh" =>
         /\ DataOf(heap, rootNodes) = Labelled(ParsedOf(file))
         /\ Len(rootNodes) = Len(ParsedOf(file))

\* A file of a bad line and a line that is JSON was loaded: one root.
C16_Witness ==
    /\ lastCall.op = "refresh"
    /\ Len(file[1]) = 2
    /\ file[1][1] = NotJson
    /\ file[1][2] # NotJson
    /\ Len(rootNodes) = 1

\* C17: a load that finds the data file missing, or that throws, leaves
\* rootNodes and the tree below as they were and fires no event; the missing
\* file shows no error message, and refresh is not called.
C17_FailedLoadKeepsTree ==
    [][(Len(file) # 1 /\ lastCall'.op \in {"refresh", "missing", "showErrorMessage"}) =>
          /\ rootNodes' = rootNodes
          /\ Displays(heap', rootNodes') = Displays(heap, rootNodes)
          /\ notified' = notified
          /\ lastCall'.op # "refresh"
          /\ file = None => lastCall'.op = "missing"]_vars

\* A load found the file missing when a tree was shown, which is still there.
C17_Witness ==
    /\ lastCall.op = "missing"
    /\ file = None
    /\ rootNodes # <<>>
    /\ notified # <<>>

\* C18: refresh, setStatusFilter and setSearchText each fire one event, and
\* fire it once the field is assigned: the listener reads the new rootNodes,
\* statusFilter and searchText.
C18_NotifiedAfterAssignment ==
    [][notified' = <<Provider'>> \/ ~(Load \/ SetStatusFilter \/ SetSearchText)]_vars

\* The three have been called and the listener read what they assigned.
C18_Witness ==
    /\ notified = <<Provider>>
    /\ rootNodes # <<>>
    /\ statusFilter = {"formalized"}
    /\ searchText = "A"

\* C19: getChildren(element) returns the children of the built node the
\* element stands for, filtered under the status filter as it is now, also
\* when the filter was changed since the element was handed out.
C19_ChildrenUnderCurrentFilter ==
    ChildrenListed =>
        LET original == heap[lastCall.element].origin
            out == FilterNodesByStatus(heap, heap[original].children, statusFilter)
        IN  Displays(heap, lastCall.result) = Displays(out.heap, out.result)

\* C20: rootNodes is empty at first, and every step either leaves rootNodes
\* and the tree below as they are or replaces them by the whole tree built of
\* the data file as it is at that step.
C20_TreeReplacedWhole ==
    /\ rootNodes = <<>>
    /\ [][\/ rootNodes' = rootNodes /\ Displays(heap', rootNodes') = Displays(heap, rootNodes)
          \/ LET treeNodes == LoadBlueprintTreeFromJsonl(file) IN
             /\ treeNodes # None
             /\ Displays(heap', rootNodes')
                  = Displays(treeNodes[1].heap, treeNodes[1].result)]_vars

\* The roots of a loaded tree were requested after the data file was removed.
C20_Witness ==
    /\ RootsListed
    /\ file = None
    /\ Len(rootNodes) = 2
    /\ Len(lastCall.result) = 2

-----------------------------------------------------------------------------
(* The command leanblueprintcopilot.parseBlueprintProject *)

\* The data files the extractor leaves: none, one that cannot be read, or one
\* statement.
ParseFiles == {None, Throwing, FileOf(<<MkItem(Theorem, <<>>, None)>>),
               FileOf(<<MkItem(Lemma, <<>>, None)>>)}

\* Lines 366-371: the command is invoked, the invocations being numbered as
\* they begin; without a workspace folder it shows the error and returns.
ParseStart(r) ==
    /\ runs[r].pc = "idle"
    /\ \A q \in 1..(r - 1) : runs[q].pc # "idle"
    /\ \E folder \in BOOLEAN :
         runs' = [runs EXCEPT ![r] =
                    [@ EXCEPT !.pc = IF folder THEN "installing" ELSE "done",
                              !.folder = IF folder THEN "yes" ELSE "no"]]
    /\ UNCHANGED <<file, heap, rootNodes, statusFilter, showOnlyUnformalized,
                   searchText, shown, expands, lastCall, notified>>

\* The command spawning the extractor whatever installLeanblueprint returned.
InstallDoneSpawnsAnyway(r) ==
    /\ runs[r].pc = "installing"
    /\ \E ok \in BOOLEAN :
         runs' = [runs EXCEPT ![r] =
                    [@ EXCEPT !.pc = "extracting",
                              !.ok = IF ok THEN "true" ELSE "false"]]
    /\ UNCHANGED <<file, heap, rootNodes, statusFilter, showOnlyUnformalized,
                   searchText, shown, expands, lastCall, notified>>

\* Lines 372-392: installLeanblueprint resolves; when it gave true the
\* extractor is spawned, otherwise the command returns.
InstallDone(r) ==
    /\ runs[r].pc = "installing"
    /\ \E ok \in BOOLEAN :
         runs' = [runs EXCEPT ![r] =
                    [@ EXCEPT !.pc = IF ok THEN "extracting" ELSE "done",
                              !.ok = IF ok THEN "true" ELSE "false"]]
    /\ UNCHANGED <<file, heap, rootNodes, statusFilter, showOnlyUnformalized,
                   searchText, shown, expands, lastCall, notified>>

\* A running extractor writes, removes or spoils the data file.
ExtractorWrites ==
    /\ \E r \in DOMAIN runs : runs[r].pc = "extracting"
    /\ file' \in ParseFiles
    /\ UNCHANGED <<heap, rootNodes, statusFilter, showOnlyUnformalized, searchText,
                   shown, expands, lastCall, notified, runs>>

\* The close handler refreshing only while the provider has no tree.
ExtractorCloseLoadsOnce(r) ==
    /\ runs[r].pc = "extracting"
    /\ \E code \in {0, 1} :
         LET treeNodes == LoadBlueprintTreeFromJsonl(file)
             rank == 1 + Cardinality({q \in DOMAIN runs : runs[q].closed > 0})
             closed == [runs[r] EXCEPT !.pc = "done", !.code = code, !.closed = rank]
         IN  IF code # 0
             THEN /\ runs' = [runs EXCEPT ![r] = closed]
                  /\ UNCHANGED <<file, heap, rootNodes, statusFilter,
                                 showOnlyUnformalized, searchText, shown, expands,
                                 lastCall, notified>>
             ELSE IF treeNodes = None
             THEN /\ lastCall' = [op |-> IF file = None THEN "missing"
                                         ELSE "showErrorMessage",
                                  element |-> 0, result |-> <<>>]
                  /\ runs' = [runs EXCEPT ![r] = closed]
                  /\ UNCHANGED <<file, heap, rootNodes, statusFilter,
                                 showOnlyUnformalized, searchText, shown, expands,
                                 notified>>
             ELSE /\ heap' = IF rootNodes = <<>> THEN treeNodes[1].heap ELSE heap
                  /\ rootNodes' = IF rootNodes = <<>> THEN treeNodes[1].result ELSE rootNodes
                  /\ shown' = {}
                  /\ expands' = 0
                  /\ lastCall' = [op |-> "refresh", element |-> 0, result |-> <<>>]
                  /\ UNCHANGED <<file, statusFilter, showOnlyUnformalized, searchText>>
                  /\ notified' = Fire(Provider, Provider')
                  /\ runs' = [runs EXCEPT ![r] =
                                [closed EXCEPT
                                    !.tree = Some(Displays(treeNodes[1].heap,
                                                           treeNodes[1].result)),
                                    !.fired = Len(notified')]]

\* Lines 405-416: the extractor of the invocation closes with an exit code.
\* On a code other than 0 the error is shown; on 0 the data file is loaded
\* and, when that gave a tree, refresh(treeNodes) is called; then the promise
\* is resolved.
ExtractorClose(r) ==
    /\ runs[r].pc = "extracting"
    /\ \E code \in {0, 1} :
         LET treeNodes == LoadBlueprintTreeFromJsonl(file)
             rank == 1 + Cardinality({q \in DOMAIN runs : runs[q].closed > 0})
             closed == [runs[r] EXCEPT !.pc = "done", !.code = code, !.closed = rank]
         IN  IF code # 0
             THEN /\ runs' = [runs EXCEPT ![r] = closed]
                  /\ UNCHANGED <<file, heap, rootNodes, statusFilter,
                                 showOnlyUnformalized, searchText, shown, expands,
                                 lastCall, notified>>
             ELSE IF treeNodes = None
             THEN /\ lastCall' = [op |-> IF file = None THEN "missing"
                                         ELSE "showErrorMessage",
                                  element |-> 0, result |-> <<>>]
                  /\ runs' = [runs EXCEPT ![r] = closed]
                  /\ UNCHANGED <<file, heap, rootNodes, statusFilter,
                                 showOnlyUnformalized, searchText, shown, expands,
                                 notified>>
             ELSE /\ heap' = treeNodes[1].heap
                  /\ rootNodes' = treeNodes[1].result
                  /\ shown' = {}
                  /\ expands' = 0
                  /\ lastCall' = [op |-> "refresh", element |-> 0, result |-> <<>>]
                  /\ UNCHANGED <<file, statusFilter, showOnlyUnformalized, searchText>>
                  /\ notified' = Fire(Provider, Provider')
                  /\ runs' = [runs EXCEPT ![r] =
                                [closed EXCEPT
                                    !.tree = Some(Displays(treeNodes[1].heap,
                                                           treeNodes[1].result)),
                                    !.fired = Len(notified')]]

\* Invocations of the parse command, overlapping or not, and their extractors.
ParseNext ==
    \/ \E r \in DOMAIN runs : ParseStart(r)
    \/ \E r \in DOMAIN runs : InstallDone(r)
    \/ ExtractorWrites
    \/ \E r \in DOMAIN runs : ExtractorClose(r)

ParseInit == file \in ParseFiles /\ Fresh

ParseSpec == ParseInit /\ [][ParseNext]_vars

-----------------------------------------------------------------------------
(* C21 - C30 *)

\* What getChildren(undefined) returns for a tree under a status filter, the
\* search text not being given.
RootsUnder(h, roots, sf) ==
    LET canonical == SubSeq(h, 1, Cardinality(Canonical(h)))
        out == FilterNodesByStatus(canonical, roots, sf)
    IN  Displays(out.heap, out.result)

\* What getChildren(element) returns for the children of an element under a
\* status filter, the search text not being given.
ChildrenUnder(h, children, sf) ==
    LET out == FilterNodesByStatus(h, children, sf) IN Displays(out.heap, out.result)

Checkmark == Some([id |-> "check", color |-> Undefined])
WarningCircle == Some([id |-> "circle-outline", color |-> "problemsWarningIcon.foreground"])

\* The node is a statement: its item has a stmt_type.
IsStatement(node) ==
    node.blueprintData # None /\ Truthy(node.blueprintData[1].stmt_type)

C23_ClickSelectsForFormalization ==
    [][(lastCall'.op = "getTreeItem" /\ lastCall' # lastCall) =>
        LET element == lastCall'.element IN
        /\ element \in shown
        /\ heap'[element].command =
             IF ~heap[element].isFormalized /\ IsStatement(heap[element])
             THEN SelectForFormalization(heap[element].blueprintData[1])
             ELSE heap[element].command
        /\ [heap'[element] EXCEPT !.command = heap[element].command] = heap[element]
        /\ DOMAIN heap' = DOMAIN heap
        /\ \A i \in DOMAIN heap \ {element} : heap'[i] = heap[i]]_vars

\* Under a single-status filter getTreeItem was applied to a non-formalized
\* statement, which now has the command, while a formalized statement the
\* display layer holds has no such command.
C23_Witness ==
    /\ lastCall.op = "getTreeItem"
    /\ Cardinality(statusFilter) = 1
    /\ ~heap[lastCall.element].isFormalized
    /\ IsStatement(heap[lastCall.element])
    /\ heap[lastCall.element].command
         = SelectForFormalization(heap[lastCall.element].blueprintData[1])
    /\ \E e \in shown :
         /\ heap[e].isFormalized
         /\ heap[e].command # SelectForFormalization(heap[e].blueprintData[1])

\* A string-valued property of an item is given: it is there and not empty.
Given(s) == s # Undefined /\ s # Null /\ s # ""

\* C24: a node built from an item that has a label has the command
\* workbench.action.findInFiles with the label as the query, and a node built
\* from an item without a label has no command.
C24_LabelSearch ==
    \A i \in Canonical(heap) :
        heap[i].blueprintData # None =>
            LET n == heap[i].blueprintData[1] IN
            heap[i].command =
                IF Given(n.label)
                THEN Some([title |-> "Go to Blueprint Declaration",
                           command |-> "workbench.action.findInFiles",
                           arguments |-> <<[query |-> n.label]>>])
                ELSE None

\* A statement with a label was built with the search for its label, above a
\* proof that has a text and no label and was built without a command.
C24_Witness ==
    \E i \in Canonical(heap) :
        /\ heap[i].blueprintData # None
        /\ Given(heap[i].blueprintData[1].label)
        /\ heap[i].command # None
        /\ \E c \in Range(heap[i].children) :
             /\ heap[c].blueprintData # None
             /\ heap[c].label = "P"
             /\ heap[c].command = None

\* The first given of the title, the label, the stmt_type and the
\* processed_text of an item, and "Item" when none is given.
FirstGiven(n) ==
    IF Given(n.title) THEN n.title
    ELSE IF Given(n.label) THEN n.label
    ELSE IF Given(n.stmt_type) THEN n.stmt_type
    ELSE IF Given(n.processed_text) THEN n.processed_text
    ELSE "Item"

\* C25: the label of a node built from an item is the first non-empty of the
\* title, the label, the stmt_type and the processed_text of the item, and
\* "Item" when all four are empty or absent.
C25_DisplayText ==
    \A i \in Canonical(heap) :
        heap[i].blueprintData # None =>
            heap[i].label = FirstGiven(heap[i].blueprintData[1])

\* The proof of a statement was built with the label "Item", the title, the
\* label and the processed_text of its item being empty strings and its
\* stmt_type absent.
C25_Witness ==
    \E i \in Canonical(heap) :
        \E c \in Range(heap[i].children) :
            /\ heap[c].blueprintData # None
            /\ heap[c].blueprintData[1].title = ""
            /\ heap[c].blueprintData[1].label = ""
            /\ heap[c].blueprintData[1].stmt_type = Undefined
            /\ heap[c].blueprintData[1].processed_text = ""
            /\ heap[c].label = "Item"

\* C26: the status filter starts as both statuses and is never empty; an
\* invocation of filterBlueprintTree in which something was ticked makes the
\* status filter exactly what was ticked and notifies the listener, and one
\* that was cancelled or in which nothing was ticked changes neither the status
\* filter nor what the listener was last notified of.
C26_StatusFilterNeverEmpty ==
    /\ statusFilter = Statuses
    /\ [](statusFilter # {})
    /\ [][\A selected \in Picks :
            FilterBlueprintTree(selected) =>
                IF selected # None /\ selected[1] # {}
                THEN statusFilter' = selected[1] /\ notified' = <<Provider'>>
                ELSE statusFilter' = statusFilter /\ notified' = notified]_vars

\* A single status was picked, and the roots were listed under it.
C26_Witness ==
    /\ Cardinality(statusFilter) = 1
    /\ notified = <<Provider>>
    /\ RootsListed
    /\ rootNodes # <<>>

\* C27: a declaration leaf, the node of no item, is never formalized, and under
\* {formalized} no declaration leaf is listed at any level, the children of a
\* listed formalized statement included.
C27_NoLeafUnderFormalized ==
    /\ \A i \in DOMAIN heap : heap[i].blueprintData = None => ~heap[i].isFormalized
    /\ (RootsListed /\ statusFilter = {"formalized"}) =>
          \A o \in Reach(heap, lastCall.result) : heap[o].blueprintData # None

\* Under {formalized} a formalized statement is listed whose original has a
\* declaration leaf among its children.
C27_Witness ==
    /\ RootsListed /\ statusFilter = {"formalized"}
    /\ \E o \in Reach(heap, lastCall.result) :
         /\ heap[o].isFormalized
         /\ \E c \in Range(Original(o).children) : heap[c].blueprintData = None

RECURSIVE GeneralBranch(_, _, _, _)
\* Lines 160-190 run on nodes and, in the recursive calls, on their
\* descendants, with the given showFormalized and showNonFormalized: what the
\* display layer sees of the nodes it pushes to result.
GeneralBranch(h, nodes, showFormalized, showNonFormalized) ==
    IF nodes = <<>> THEN <<>>
    ELSE
        LET node == h[Head(nodes)]
            filteredChildren ==
                GeneralBranch(h, node.children, showFormalized, showNonFormalized)
            filteredNode ==
                [label |-> node.label,
                 collapsibleState |-> "Expanded",
                 blueprintData |-> node.blueprintData,
                 isFormalized |-> node.isFormalized,
                 contextValue |-> node.contextValue,
                 iconPath |-> Folder,
                 command |-> None,
                 description |-> node.description,
                 tooltip |-> node.tooltip,
                 children |-> filteredChildren]
            pushed ==
                IF (node.isFormalized /\ showFormalized)
                   \/ (~node.isFormalized /\ showNonFormalized)
                THEN <<[filteredNode EXCEPT
                          !.collapsibleState =
                              IF Len(filteredChildren) > 0 THEN "Expanded" ELSE "None",
                          !.iconPath = node.iconPath,
                          !.command = node.command]>>
                ELSE IF Len(node.children) > 0 /\ Len(filteredChildren) > 0
                THEN <<filteredNode>>
                ELSE <<>>
        IN  pushed \o GeneralBranch(h, Tail(nodes), showFormalized, showNonFormalized)

\* C28: under {non-formalized}, where filterNodesByStatus takes its dedicated
\* branch at every level, the roots listed are those the general branch gives
\* for the tree with showFormalized false and showNonFormalized true: the same
\* nodes in the same order with the same expandability, icon, command,
\* description and tooltip, at every level.
C28_DedicatedBranchIsGeneral ==
    (RootsListed /\ statusFilter = {"non-formalized"}) =>
        Displays(heap, lastCall.result) = GeneralBranch(heap, rootNodes, FALSE, TRUE)

\* Under {non-formalized} the dedicated branch included a statement, passed a
\* formalized one through and dropped another.
C28_Witness ==
    /\ RootsListed /\ statusFilter = {"non-formalized"}
    /\ \E o \in Reach(heap, lastCall.result) :
         heap[o].isFormalized /\ heap[o].blueprintData # None
    /\ \E o \in Reach(heap, lastCall.result) :
         ~heap[o].isFormalized /\ heap[o].blueprintData # None
    /\ \E i \in Reach(heap, rootNodes) : ~Survives(heap, i, statusFilter)

\* C29: an extractor runs only for an invocation that had a workspace folder
\* and to which installLeanblueprint returned true; the tree and what the
\* listener was notified of change only in the step in which the extractor of
\* such an invocation closes with code 0 and the data file gives a tree; and
\* an invocation without a workspace folder, with a failed installation or
\* with another exit code is complete as soon as it met that, having fired
\* nothing and left rootNodes as it was.
C29_ParseGated ==
    /\ [](\A r \in DOMAIN runs :
            /\ runs[r].pc = "extracting" => runs[r].folder = "yes" /\ runs[r].ok = "true"
            /\ (runs[r].folder = "no" \/ runs[r].ok = "false" \/ runs[r].code \notin {-1, 0})
                  => runs[r].pc = "done" /\ runs[r].fired = 0 /\ runs[r].tree = None)
    /\ [][(rootNodes' # rootNodes \/ CanonicalTree' # CanonicalTree \/ notified' # notified)
            => \E r \in DOMAIN runs :
                 /\ runs[r].pc = "extracting" /\ runs[r].ok = "true"
                 /\ runs'[r].pc = "done" /\ runs'[r].code = 0
                 /\ LoadBlueprintTreeFromJsonl(file) # None]_vars
    /\ [][\A r \in DOMAIN runs :
            (/\ runs'[r] # runs[r]
             /\ \/ runs'[r].folder = "no"
                \/ runs'[r].ok = "false"
                \/ runs'[r].code \notin {-1, 0})
            => /\ runs'[r].pc = "done"
               /\ rootNodes' = rootNodes
               /\ CanonicalTree' = CanonicalTree
               /\ notified' = notified]_vars

\* The provider has the tree one invocation loaded, and of the other
\* invocations one had no workspace folder, or a failed installation, or an
\* extractor that closed with another code than 0 after that tree was loaded.
C29_Witness ==
    /\ rootNodes # <<>>
    /\ \E r \in DOMAIN runs : runs[r].fired = 1
    /\ \E r \in DOMAIN runs :
         /\ runs[r].code = 1
         /\ \E q \in DOMAIN runs : runs[q].tree # None /\ runs[q].closed < runs[r].closed

\* The invocations whose close handler called refresh.
Successful == {r \in DOMAIN runs : runs[r].tree # None}

\* C30: each invocation whose extractor closed with code 0 over a data file
\* that gave a tree fired one event, every other none, and the tree of the
\* provider is the one loaded by that of them whose extractor closed last,
\* in whatever order they began.
C30_LastCloseWins ==
    /\ \A r \in DOMAIN runs : runs[r].fired = IF r \in Successful THEN 1 ELSE 0
    /\ Successful # {} =>
         LET last == CHOOSE r \in Successful :
                         \A q \in Successful : runs[q].closed <= runs[r].closed
         IN  CanonicalTree = runs[last].tree[1]

\* Two invocations are complete: the second began while the first was under
\* way and its extractor closed first; they loaded different trees.
C30_Witness ==
    /\ \A r \in DOMAIN runs : runs[r].pc = "done"
    /\ {1, 2} \subseteq Successful
    /\ runs[2].closed < runs[1].closed
    /\ runs[1].tree # runs[2].tree

====
